---- MODULE Spec2Model ----
(***************************************************************************)
(* A model of markdown2html.py: the command-line driver (argument and file *)
(* checks, the with/try/except frame around the two file handles), the     *)
(* line loop with its block state (in_ul, in_ol, paragraph_lines) and the  *)
(* inline transformer (bold, emphasis, [[md5]], ((remove c))).             *)
(*                                                                         *)
(* Text.  A text is a sequence of items, each item a tuple of strings:     *)
(*   <<"a">>            the character a (input characters, and the         *)
(*                      characters of the inline tags <b>, </b>, <em>,     *)
(*                      </em>, which re.sub writes into the line);         *)
(*   <<"md5", c1, ...>> the 32 hex characters hashlib.md5 returns for the  *)
(*                      text c1 c2 ...  (the digest is not computed: it is *)
(*                      kept as a value that names its input);             *)
(*   <<"md5-c", c1,...>> that digest after remove_c took its 'c's out;     *)
(*   <<"<ul>">>, ...    a block tag written by main itself ("<p>", "</p>", *)
(*                      "<br/>", "<ul>", "</ul>", "<ol>", "</ol>", "<li>", *)
(*                      "</li>"), <<"<h", "3", ">">> and <<"</h", "3",     *)
(*                      ">">> for the heading tags, and <<"\n">>.          *)
(* A line is the text of one input line without its trailing newline.      *)
(***************************************************************************)
EXTENDS Integers, Sequences, FiniteSets, TLC

\* The longest input the model reads, in lines.
MaxLines == 3

\* The heading levels HTML has: the 6 of `count <= 6`.
MaxHeadingLevel == 6

Min(S) == CHOOSE x \in S : \A y \in S : x <= y
Max(S) == CHOOSE x \in S : \A y \in S : x >= y

\* A text from a tuple of characters.
Str(s) == [i \in 1..Len(s) |-> <<s[i]>>]

\* A text of one block tag, and the newline.
Tag(t) == <<<<t>>>>
NL == <<<<"\n">>>>

RECURSIVE Flat(_)
Flat(text) == IF text = <<>> THEN <<>> ELSE Head(text) \o Flat(Tail(text))

RECURSIVE Concat(_)
Concat(texts) == IF texts = <<>> THEN <<>> ELSE Head(texts) \o Concat(Tail(texts))

\* sep.join(texts)
RECURSIVE join(_, _)
join(sep, texts) ==
    IF texts = <<>> THEN <<>>
    ELSE IF Len(texts) = 1 THEN texts[1]
    ELSE texts[1] \o sep \o join(sep, Tail(texts))

-----------------------------------------------------------------------------
(* str.strip, str.startswith and the count of leading '#'.                 *)

IsSpace(x) == x \in {<<" ">>, <<"\t">>}

strip(s) ==
    LET keep == {i \in 1..Len(s) : ~IsSpace(s[i])}
    IN IF keep = {} THEN <<>> ELSE SubSeq(s, Min(keep), Max(keep))

startswith(s, p) == Len(s) >= Len(p) /\ SubSeq(s, 1, Len(p)) = p

count_hashes(stripped) ==
    LET other == {i \in 1..Len(stripped) : stripped[i] # <<"#">>}
    IN IF other = {} THEN Len(stripped) ELSE Min(other) - 1

-----------------------------------------------------------------------------
(* The inline transformer.                                                 *)

\* hashlib.md5(text.encode()).hexdigest(): the digest of exactly this text.
md5_hash(text) == <<<<"md5">> \o Flat(text)>>

\* re.sub(r"[cC]", "", text); a digest in the text loses its 'c's too.
remove_c(text) ==
    LET kept == SelectSeq(text, LAMBDA x : x \notin {<<"c">>, <<"C">>})
    IN [i \in 1..Len(kept) |->
          IF kept[i][1] = "md5" THEN <<"md5-c">> \o Tail(kept[i]) ELSE kept[i]]

\* What a match with group(1) = content is replaced by.
replacement(kind, content) ==
    CASE kind = "b"   -> Str(<<"<", "b", ">">>) \o content \o Str(<<"<", "/", "b", ">">>)
      [] kind = "em"  -> Str(<<"<", "e", "m", ">">>) \o content
                         \o Str(<<"<", "/", "e", "m", ">">>)
      [] kind = "md5" -> md5_hash(content)
      [] kind = "remove_c" -> remove_c(content)

\* Mutant: a greedy group, (.+) for (.+?): a match ends at the last closing
\* delimiter of the line.
RECURSIVE re_sub_greedy(_, _, _, _, _)
re_sub_greedy(o, c, kind, text, i) ==
    IF i > Len(text) THEN <<>>
    ELSE LET ends == {j \in (i + 3)..(Len(text) - 1) :
                         text[j] = <<c>> /\ text[j + 1] = <<c>>}
         IN IF /\ i + 1 <= Len(text)
               /\ text[i] = <<o>>
               /\ text[i + 1] = <<o>>
               /\ ends # {}
            THEN replacement(kind, SubSeq(text, i + 2, Max(ends) - 1))
                 \o re_sub_greedy(o, c, kind, text, Max(ends) + 2)
            ELSE <<text[i]>> \o re_sub_greedy(o, c, kind, text, i + 1)

\* re.sub(r"OO(.+?)CC", repl, text) from position i on, for a pattern whose
\* opening delimiter is the character o twice and whose closing delimiter is the
\* character c twice: scanning left to right, a match starts at the first
\* position that holds the opening delimiter with a closing delimiter at least
\* one character later, and ends at the nearest such closing delimiter.
RECURSIVE re_sub(_, _, _, _, _)
re_sub(o, c, kind, text, i) ==
    IF i > Len(text) THEN <<>>
    ELSE LET ends == {j \in (i + 3)..(Len(text) - 1) :
                         text[j] = <<c>> /\ text[j + 1] = <<c>>}
         IN IF /\ i + 1 <= Len(text)
               /\ text[i] = <<o>>
               /\ text[i + 1] = <<o>>
               /\ ends # {}
            THEN replacement(kind, SubSeq(text, i + 2, Min(ends) - 1))
                 \o re_sub(o, c, kind, text, Min(ends) + 2)
            ELSE <<text[i]>> \o re_sub(o, c, kind, text, i + 1)

\* The four re.sub calls.  Each takes its argument as a value (t ranges over
\* the one-element set of it), as a Python call does.
sub_bold(text) == CHOOSE r \in {re_sub("*", "*", "b", t, 1) : t \in {text}} : TRUE
sub_emphasis(text) == CHOOSE r \in {re_sub("_", "_", "em", t, 1) : t \in {text}} : TRUE
sub_md5(text) == CHOOSE r \in {re_sub("[", "]", "md5", t, 1) : t \in {text}} : TRUE
sub_remove_c(text) ==
    CHOOSE r \in {re_sub("(", ")", "remove_c", t, 1) : t \in {text}} : TRUE

replace_bold_emphasis(text) == sub_emphasis(sub_bold(text))

replace_special(text) == sub_remove_c(sub_md5(text))

\* Mutant: the special replacements run before bold and emphasis.
process_line_special_first(line) == replace_bold_emphasis(replace_special(line))

process_line(line) == replace_special(replace_bold_emphasis(line))

-----------------------------------------------------------------------------
(* The block state of main and the steps of its loop.  A block state is    *)
(* [in_ul, in_ol, paragraph_lines, writes]: the three locals of main and   *)
(* the outfile.write calls made so far while handling the current line.    *)

Digit(n) == <<"0", "1", "2", "3", "4", "5", "6", "7", "8", "9">>[n + 1]

write(s, text) == [s EXCEPT !.writes = Append(@, text)]

\* Mutant: a break tag after every line of the paragraph, the last included.
close_paragraph_break_each(s) ==
    IF s.paragraph_lines # <<>>
    THEN LET processed_lines ==
                 [i \in 1..Len(s.paragraph_lines) |->
                     process_line(s.paragraph_lines[i]) \o Tag("<br/>")]
             joined == join(NL, processed_lines)
         IN [write(s, Tag("<p>") \o NL \o joined \o NL \o Tag("</p>") \o NL)
                EXCEPT !.paragraph_lines = <<>>]
    ELSE s

\* Mutant: the block is written and the buffer is not cleared.
close_paragraph_keeps_buffer(s) ==
    IF s.paragraph_lines # <<>>
    THEN IF Len(s.paragraph_lines) = 1
         THEN write(s, Tag("<p>") \o NL \o process_line(s.paragraph_lines[1])
                       \o NL \o Tag("</p>") \o NL)
         ELSE LET processed_lines ==
                      [i \in 1..Len(s.paragraph_lines) |->
                          process_line(s.paragraph_lines[i])]
                  joined == join(Tag("<br/>") \o NL, processed_lines)
              IN write(s, Tag("<p>") \o NL \o joined \o NL \o Tag("</p>") \o NL)
    ELSE s

\* Mutant: no test of the buffer, a block is written for an empty one too.
close_paragraph_unguarded(s) ==
    LET processed_lines ==
            [i \in 1..Len(s.paragraph_lines) |-> process_line(s.paragraph_lines[i])]
        joined == join(Tag("<br/>") \o NL, processed_lines)
    IN [write(s, Tag("<p>") \o NL \o joined \o NL \o Tag("</p>") \o NL)
           EXCEPT !.paragraph_lines = <<>>]

close_paragraph(s) ==
    IF s.paragraph_lines # <<>>
    THEN LET written ==
                 IF Len(s.paragraph_lines) = 1
                 THEN write(s, Tag("<p>") \o NL \o process_line(s.paragraph_lines[1])
                               \o NL \o Tag("</p>") \o NL)
                 ELSE LET processed_lines ==
                              [i \in 1..Len(s.paragraph_lines) |->
                                  process_line(s.paragraph_lines[i])]
                          joined == join(Tag("<br/>") \o NL, processed_lines)
                      IN write(s, Tag("<p>") \o NL \o joined \o NL \o Tag("</p>") \o NL)
         IN [written EXCEPT !.paragraph_lines = <<>>]
    ELSE s

close_ul(s) ==
    IF s.in_ul THEN [write(s, Tag("</ul>") \o NL) EXCEPT !.in_ul = FALSE] ELSE s

\* Mutant: </ol> is written and in_ol stays set.
close_ol_keeps_flag(s) ==
    IF s.in_ol THEN write(s, Tag("</ol>") \o NL) ELSE s

close_ol(s) ==
    IF s.in_ol THEN [write(s, Tag("</ol>") \o NL) EXCEPT !.in_ol = FALSE] ELSE s

blank_branch(s) == close_ol(close_ul(close_paragraph(s)))

\* Mutant: the heading check comes first and a line that fails it is dropped
\* without closing anything.
heading_branch_check_first(s, stripped) ==
    LET count == count_hashes(stripped)
    IN IF /\ count <= MaxHeadingLevel
          /\ Len(stripped) > count
          /\ stripped[count + 1] = <<" ">>
       THEN write(close_ol(close_ul(close_paragraph(s))),
                  <<<<"<h", Digit(count), ">">>>>
                  \o process_line(SubSeq(stripped, count + 2, Len(stripped)))
                  \o <<<<"</h", Digit(count), ">">>>> \o NL)
       ELSE s

\* Mutant: the content starts at stripped[count], the space after the '#'s.
heading_branch_keeps_space(s, stripped) ==
    LET closed == close_ol(close_ul(close_paragraph(s)))
        count == count_hashes(stripped)
    IN IF /\ count <= MaxHeadingLevel
          /\ Len(stripped) > count
          /\ stripped[count + 1] = <<" ">>
       THEN write(closed, <<<<"<h", Digit(count), ">">>>>
                          \o process_line(SubSeq(stripped, count + 1, Len(stripped)))
                          \o <<<<"</h", Digit(count), ">">>>> \o NL)
       ELSE closed

\* Mutant: the level test lets seven '#' through.
heading_branch_level7(s, stripped) ==
    LET closed == close_ol(close_ul(close_paragraph(s)))
        count == count_hashes(stripped)
    IN IF /\ count <= MaxHeadingLevel + 1
          /\ Len(stripped) > count
          /\ stripped[count + 1] = <<" ">>
       THEN write(closed, <<<<"<h", Digit(count), ">">>>>
                          \o process_line(SubSeq(stripped, count + 2, Len(stripped)))
                          \o <<<<"</h", Digit(count), ">">>>> \o NL)
       ELSE closed

\* Mutant: the heading is written before the open blocks are closed.
heading_branch_writes_first(s, stripped) ==
    LET count == count_hashes(stripped)
        headed == IF /\ count <= MaxHeadingLevel
                     /\ Len(stripped) > count
                     /\ stripped[count + 1] = <<" ">>
                  THEN write(s, <<<<"<h", Digit(count), ">">>>>
                                \o process_line(SubSeq(stripped, count + 2, Len(stripped)))
                                \o <<<<"</h", Digit(count), ">">>>> \o NL)
                  ELSE s
    IN close_ol(close_ul(close_paragraph(headed)))

heading_branch(s, stripped) ==
    LET closed == close_ol(close_ul(close_paragraph(s)))
        count == count_hashes(stripped)
    IN IF /\ count <= MaxHeadingLevel
          /\ Len(stripped) > count
          /\ stripped[count + 1] = <<" ">>
       THEN write(closed, <<<<"<h", Digit(count), ">">>>>
                          \o process_line(SubSeq(stripped, count + 2, Len(stripped)))
                          \o <<<<"</h", Digit(count), ">">>>> \o NL)
       ELSE closed

li(stripped) ==
    Tag("<li>") \o process_line(SubSeq(stripped, 3, Len(stripped))) \o Tag("</li>") \o NL

\* Mutant: an open ordered list is not closed.
ul_branch_keeps_ol(s, stripped) ==
    LET closed == close_paragraph(s)
        opened == IF ~closed.in_ul
                  THEN [write(closed, Tag("<ul>") \o NL) EXCEPT !.in_ul = TRUE]
                  ELSE closed
    IN write(opened, li(stripped))

\* Mutant: <ul> is written for every item, in_ul is not consulted.
ul_branch_reopens(s, stripped) ==
    LET closed == close_ol(close_paragraph(s))
        opened == [write(closed, Tag("<ul>") \o NL) EXCEPT !.in_ul = TRUE]
    IN write(opened, li(stripped))

ul_branch(s, stripped) ==
    LET closed == close_ol(close_paragraph(s))
        opened == IF ~closed.in_ul
                  THEN [write(closed, Tag("<ul>") \o NL) EXCEPT !.in_ul = TRUE]
                  ELSE closed
    IN write(opened, li(stripped))

\* Mutant: <ol> is written and in_ol is not set.
ol_branch_no_flag(s, stripped) ==
    LET closed == close_ul(close_paragraph(s))
        opened == IF ~closed.in_ol THEN write(closed, Tag("<ol>") \o NL) ELSE closed
    IN write(opened, li(stripped))

\* Mutant: an open paragraph is not closed.
ol_branch_keeps_paragraph(s, stripped) ==
    LET closed == close_ul(s)
        opened == IF ~closed.in_ol
                  THEN [write(closed, Tag("<ol>") \o NL) EXCEPT !.in_ol = TRUE]
                  ELSE closed
    IN write(opened, li(stripped))

ol_branch(s, stripped) ==
    LET closed == close_ul(close_paragraph(s))
        opened == IF ~closed.in_ol
                  THEN [write(closed, Tag("<ol>") \o NL) EXCEPT !.in_ol = TRUE]
                  ELSE closed
    IN write(opened, li(stripped))

\* Mutant: the trimmed line is buffered.
paragraph_branch_trimmed(s, line) ==
    [close_ol(close_ul(s)) EXCEPT !.paragraph_lines = Append(@, strip(line))]

paragraph_branch(s, line) ==
    [close_ol(close_ul(s)) EXCEPT !.paragraph_lines = Append(@, line)]

\* One pass of the body of `for raw_line in infile`, line being
\* raw_line.rstrip("\n").
loop_body(s, line) ==
    LET stripped == strip(line)
    IN IF stripped = <<>> THEN blank_branch(s)
       ELSE IF startswith(stripped, Str(<<"#">>)) THEN heading_branch(s, stripped)
       ELSE IF startswith(stripped, Str(<<"-", " ">>)) THEN ul_branch(s, stripped)
       ELSE IF startswith(stripped, Str(<<"*", " ">>)) THEN ol_branch(s, stripped)
       ELSE paragraph_branch(s, line)

\* "Close any open blocks at the end".
\* Mutant: the final flush forgets the unordered list.
final_flush_no_ul(s) == close_ol(close_paragraph(s))

final_flush(s) == close_ol(close_ul(close_paragraph(s)))

-----------------------------------------------------------------------------
(* The input lines the model draws from: every class of line the loop      *)
(* tells apart, with and without surrounding whitespace and inline markup. *)

Lines ==
    { <<>>,
      Str(<<" ">>),
      Str(<<"#", " ", "a">>),
      Str(<<"\t", "#", "#", " ", "a", " ">>),
      Str(<<"#", "#", "#", "#", "#", "#", " ", "*", "*", "a", "*", "*">>),
      Str(<<"#", "#", "#", "#", "#", "#", "#", " ", "a">>),
      Str(<<"#", "a">>),
      Str(<<"-", " ", "a">>),
      Str(<<" ", "-", " ", "(", "(", "C", "a", "c", ")", ")">>),
      Str(<<"*", " ", "_", "_", "a", "_", "_">>),
      Str(<<"a">>),
      Str(<<" ", "a", " ">>),
      Str(<<"-", "a">>),
      Str(<<"[", "[", "*", "*", "a", "*", "*", "]", "]">>),
      Str(<<"(", "(", "[", "[", "c", "]", "]", ")", ")">>),
      Str(<<"(", "(", "c", ")", ")">>) }

-----------------------------------------------------------------------------
(* The program.                                                            *)

VARIABLES
    pc,               \* where main is
    argc,             \* len(sys.argv)
    input_is_file,    \* os.path.isfile(input_file)
    in_open,          \* infile is an open handle
    out_open,         \* outfile is an open handle
    out_touched,      \* open(output_file, "w") was called in this run
    infile,           \* the lines read from infile so far
    outfile,          \* the text written to outfile so far
    in_ul,
    in_ol,
    paragraph_lines,
    exc,              \* "raised": an Exception is propagating out of the with block
    stderr,           \* the messages printed to sys.stderr
    exit_code,        \* the argument of sys.exit, -1 while the process runs
    subject,          \* a call of process_line on its own: its argument, as the
                      \* pieces the line is made of
    line_text,        \* that call's text after the re.sub calls made so far
    step              \* the number of re.sub calls that call has made

vars == <<pc, argc, input_is_file, in_open, out_open, out_touched, infile, outfile,
          in_ul, in_ol, paragraph_lines, exc, stderr, exit_code, subject, line_text, step>>

env == <<argc, input_is_file>>
locals == <<in_ul, in_ol, paragraph_lines>>
inline == <<subject, line_text, step>>

\* The block state main holds between two lines.
block == [in_ul |-> in_ul, in_ol |-> in_ol, paragraph_lines |-> paragraph_lines,
          writes |-> <<>>]

Init ==
    /\ pc = "check_args"
    /\ argc \in 1..3
    /\ input_is_file \in BOOLEAN
    /\ in_open = FALSE
    /\ out_open = FALSE
    /\ out_touched = FALSE
    /\ infile = <<>>
    /\ outfile = <<>>
    /\ in_ul = FALSE
    /\ in_ol = FALSE
    /\ paragraph_lines = <<>>
    /\ exc = "none"
    /\ stderr = <<>>
    /\ exit_code = -1
    /\ subject = <<>>
    /\ line_text = <<>>
    /\ step = 0

\* sys.exit(code) outside the with block.
Exit(code) == pc' = "exited" /\ exit_code' = code

\* if len(sys.argv) < 3: usage, exit 1
CheckArgs ==
    /\ pc = "check_args"
    /\ IF argc < 3
       THEN stderr' = Append(stderr, "Usage: ./markdown2html.py README.md README.html")
            /\ Exit(1)
       ELSE pc' = "check_file" /\ UNCHANGED <<stderr, exit_code>>
    /\ UNCHANGED <<env, inline, in_open, out_open, out_touched, infile, outfile, locals, exc>>

\* Mutant: the missing input is reported but the program goes on.
CheckFile_goes_on ==
    /\ pc = "check_file"
    /\ stderr' = IF ~input_is_file THEN Append(stderr, "Missing <input_file>") ELSE stderr
    /\ pc' = "open_in"
    /\ UNCHANGED <<argc, input_is_file, subject, line_text, step, in_open, out_open,
                   out_touched, infile, outfile,
                   in_ul, in_ol, paragraph_lines, exc, exit_code>>

\* if not os.path.isfile(input_file): missing, exit 1
CheckFile ==
    /\ pc = "check_file"
    /\ IF ~input_is_file
       THEN stderr' = Append(stderr, "Missing <input_file>") /\ Exit(1)
       ELSE pc' = "open_in" /\ UNCHANGED <<stderr, exit_code>>
    /\ UNCHANGED <<env, inline, in_open, out_open, out_touched, infile, outfile, locals, exc>>

\* open(input_file, "r"): the handle, or an exception (a permission fault).
OpenInput ==
    /\ pc = "open_in"
    /\ \/ in_open' = TRUE /\ pc' = "open_out" /\ exc' = exc
       \/ in_open' = FALSE /\ pc' = "except" /\ exc' = "raised"
    /\ UNCHANGED <<env, inline, out_open, out_touched, infile, outfile, locals, stderr, exit_code>>

\* open(output_file, "w"): the handle on a truncated file, or an exception, on
\* which the with statement closes infile.
OpenOutput ==
    /\ pc = "open_out"
    /\ out_touched' = TRUE
    /\ \/ out_open' = TRUE /\ pc' = "loop" /\ UNCHANGED <<in_open, exc>>
       \/ out_open' = FALSE /\ in_open' = FALSE /\ pc' = "except" /\ exc' = "raised"
    /\ UNCHANGED <<env, inline, infile, outfile, locals, stderr, exit_code>>

\* Mutant: no with statement, an exception leaves the handles open.
Raise_leaks ==
    /\ UNCHANGED <<in_open, out_open>>
    /\ exc' = "raised"
    /\ pc' = "except"

\* An exception leaves the with block: both handles are closed on the way out.
Raise ==
    /\ in_open' = FALSE
    /\ out_open' = FALSE
    /\ exc' = "raised"
    /\ pc' = "except"

\* One iteration of the loop on the next line of the input.
ReadLine ==
    /\ pc = "loop"
    /\ Len(infile) < MaxLines
    /\ \E line \in Lines : \E s \in {loop_body(block, line)} :
          /\ infile' = Append(infile, line)
          /\ outfile' = outfile \o Concat(s.writes)
          /\ in_ul' = s.in_ul
          /\ in_ol' = s.in_ol
          /\ paragraph_lines' = s.paragraph_lines
    /\ UNCHANGED <<pc, env, inline, in_open, out_open, out_touched, exc, stderr, exit_code>>

\* Reading the next line raises (an I/O or a decoding fault).
ReadFail ==
    /\ pc = "loop"
    /\ Raise
    /\ UNCHANGED <<env, inline, out_touched, infile, outfile, locals, stderr, exit_code>>

\* One of the writes of an iteration raises: the writes before it were made.
WriteFail ==
    /\ pc = "loop"
    /\ Len(infile) < MaxLines
    /\ \E line \in Lines : \E s \in {loop_body(block, line)} :
          \E k \in 0..(Len(s.writes) - 1) :
             /\ infile' = Append(infile, line)
             /\ outfile' = outfile \o Concat(SubSeq(s.writes, 1, k))
    /\ Raise
    /\ UNCHANGED <<env, inline, out_touched, locals, stderr, exit_code>>

\* The input is exhausted: the final flush, then the with block is left and
\* both handles are closed.
EndOfStream ==
    /\ pc = "loop"
    /\ \E s \in {final_flush(block)} :
          /\ outfile' = outfile \o Concat(s.writes)
          /\ in_ul' = s.in_ul
          /\ in_ol' = s.in_ol
          /\ paragraph_lines' = s.paragraph_lines
    /\ in_open' = FALSE
    /\ out_open' = FALSE
    /\ pc' = "exit_ok"
    /\ UNCHANGED <<env, inline, out_touched, infile, exc, stderr, exit_code>>

\* One of the writes of the final flush, or closing outfile, raises.
FlushFail ==
    /\ pc = "loop"
    /\ \E s \in {final_flush(block)} : \E k \in 0..Len(s.writes) :
          outfile' = outfile \o Concat(SubSeq(s.writes, 1, k))
    /\ Raise
    /\ UNCHANGED <<env, inline, out_touched, infile, locals, stderr, exit_code>>

\* sys.exit(0) after the with block (SystemExit is no Exception: not caught).
ExitOk ==
    /\ pc = "exit_ok"
    /\ Exit(0)
    /\ UNCHANGED <<env, inline, in_open, out_open, out_touched, infile, outfile, locals, exc,
                   stderr>>

\* except Exception as e: print Error, exit 1
Except ==
    /\ pc = "except"
    /\ stderr' = Append(stderr, "Error: <e>")
    /\ Exit(1)
    /\ UNCHANGED <<env, inline, in_open, out_open, out_touched, infile, outfile, locals, exc>>

Next ==
    \/ CheckArgs
    \/ CheckFile
    \/ OpenInput
    \/ OpenOutput
    \/ ReadLine
    \/ ReadFail
    \/ WriteFail
    \/ EndOfStream
    \/ FlushFail
    \/ ExitOk
    \/ Except

Spec == Init /\ [][Next]_vars

\* The process is sequential and always takes its next step.
FairSpec == Spec /\ WF_vars(Next)

-----------------------------------------------------------------------------
(* process_line called on its own, one re.sub call at a time, on every     *)
(* line made of at most MaxSegments of the pieces below: plain characters, *)
(* one delimited pair of each kind, and delimiters without a partner.      *)

\* The longest line process_line is called on, in pieces.
MaxSegments == 3

PlainSegments == {Str(<<"a">>), Str(<<"c">>)}

BoldPair == Str(<<"*", "*", "a", "*", "*">>)
EmphasisPair == Str(<<"_", "_", "a", "_", "_">>)
Md5Pair == Str(<<"[", "[", "a", "]", "]">>)
RemoveCPair == Str(<<"(", "(", "C", "a", "c", ")", ")">>)

LoneDelimiters == {Str(<<"*", "*">>), Str(<<"]", "]">>)}

Segments ==
    PlainSegments \cup {BoldPair, EmphasisPair, Md5Pair, RemoveCPair} \cup LoneDelimiters

InlineInit ==
    /\ pc = "process_line"
    /\ argc = 3
    /\ input_is_file = TRUE
    /\ in_open = FALSE
    /\ out_open = FALSE
    /\ out_touched = FALSE
    /\ infile = <<>>
    /\ outfile = <<>>
    /\ in_ul = FALSE
    /\ in_ol = FALSE
    /\ paragraph_lines = <<>>
    /\ exc = "none"
    /\ stderr = <<>>
    /\ exit_code = -1
    /\ subject \in UNION {[1..n -> Segments] : n \in 0..MaxSegments}
    /\ line_text = Concat(subject)
    /\ step = 0

main_vars == <<pc, env, in_open, out_open, out_touched, infile, outfile, locals, exc,
               stderr, exit_code>>

\* text = re.sub(r"\*\*(.+?)\*\*", r"<b>\1</b>", text)
ApplyBold ==
    /\ pc = "process_line" /\ step = 0
    /\ line_text' = sub_bold(line_text)
    /\ step' = 1
    /\ UNCHANGED <<main_vars, subject>>

\* text = re.sub(r"__(.+?)__", r"<em>\1</em>", text)
ApplyEmphasis ==
    /\ pc = "process_line" /\ step = 1
    /\ line_text' = sub_emphasis(line_text)
    /\ step' = 2
    /\ UNCHANGED <<main_vars, subject>>

\* text = re.sub(r"\[\[(.+?)\]\]", md5_repl, text)
ApplyMd5 ==
    /\ pc = "process_line" /\ step = 2
    /\ line_text' = sub_md5(line_text)
    /\ step' = 3
    /\ UNCHANGED <<main_vars, subject>>

\* text = re.sub(r"\(\((.+?)\)\)", remove_c_repl, text)
ApplyRemoveC ==
    /\ pc = "process_line" /\ step = 3
    /\ line_text' = sub_remove_c(line_text)
    /\ step' = 4
    /\ UNCHANGED <<main_vars, subject>>

InlineNext == ApplyBold \/ ApplyEmphasis \/ ApplyMd5 \/ ApplyRemoveC

InlineSpec == InlineInit /\ [][InlineNext]_vars

-----------------------------------------------------------------------------
(* What the properties below are stated with.                              *)

\* The class of a line, decided on the trimmed line: blank, a line starting
\* with '#', a "- " item, a "* " item, or a paragraph line.
Class(line) ==
    LET t == strip(line)
    IN IF t = <<>> THEN "blank"
       ELSE IF t[1] = <<"#">> THEN "hash"
       ELSE IF Len(t) >= 2 /\ t[1] = <<"-">> /\ t[2] = <<" ">> THEN "ul"
       ELSE IF Len(t) >= 2 /\ t[1] = <<"*">> /\ t[2] = <<" ">> THEN "ol"
       ELSE "para"

\* The trimmed line is L '#' characters, a space and a text.
IsHeading(line, L) ==
    LET t == strip(line)
    IN /\ Len(t) > L + 1
       /\ \A i \in 1..L : t[i] = <<"#">>
       /\ t[L + 1] = <<" ">>

ValidHeading(line) == \E L \in 1..6 : IsHeading(line, L)

\* A '#' line that is no heading: seven or more '#', or no space after them.
FailedHeading(line) == Class(line) = "hash" /\ ~ValidHeading(line)

\* The text after the marker of a heading or list line.
HeadingText(line) ==
    LET t == strip(line)
        L == CHOOSE L \in 1..6 : IsHeading(line, L)
    IN SubSeq(t, L + 2, Len(t))

ItemText(line) == SubSeq(strip(line), 3, Len(strip(line)))

\* The step that handles `line` to its end without a fault.
Handled(line) == pc = "loop" /\ pc' = "loop" /\ infile' = Append(infile, line)

\* What a step appended to the output.
Added == SubSeq(outfile', Len(outfile) + 1, Len(outfile'))

\* The pass ran without a fault so far, and the lines of infile were all handled.
Converting == exc = "none" /\ pc \in {"loop", "exit_ok", "exited"}

\* The pass is over: the final flush was made.
Flushed == exc = "none" /\ pc \in {"exit_ok", "exited"} /\ out_touched

Count(seq, item) == Cardinality({i \in 1..Len(seq) : seq[i] = item})

First(seq, item) == Min({i \in 1..Len(seq) : seq[i] = item})

LastClass == IF infile = <<>> THEN "none" ELSE Class(infile[Len(infile)])

-----------------------------------------------------------------------------
\* The contexts open before a step, and whether one is open after it.
C1_OpenContexts ==
    {c \in {"p", "ul", "ol"} :
        \/ c = "p" /\ paragraph_lines # <<>>
        \/ c = "ul" /\ in_ul
        \/ c = "ol" /\ in_ol}

C1_OpenAfter(c) ==
    \/ c = "p" /\ paragraph_lines' # <<>>
    \/ c = "ul" /\ in_ul'
    \/ c = "ol" /\ in_ol'

C1_Closing(c) == IF c = "p" THEN <<"</p>">> ELSE IF c = "ul" THEN <<"</ul>">> ELSE <<"</ol>">>

C1_Opening(c) == IF c = "ul" THEN <<"<ul>">> ELSE <<"<ol>">>

C1_ClosedFirst ==
    \A new \in {"p", "ul", "ol"} : \A old \in C1_OpenContexts :
        (new # old /\ C1_OpenAfter(new)) =>
            /\ ~C1_OpenAfter(old)
            /\ Count(Added, C1_Closing(old)) = 1
            /\ new # "p" =>
                  /\ Count(Added, C1_Opening(new)) = 1
                  /\ First(Added, C1_Closing(old)) < First(Added, C1_Opening(new))

\* C1: at most one block context is open at any time (a non-empty paragraph
\* buffer, in_ul, in_ol), and a step that opens a context while another one
\* was open closes that one and writes its closing tag before the opening tag.
C1_AtMostOneContext ==
    /\ [](Cardinality(C1_OpenContexts) <= 1)
    /\ [][C1_ClosedFirst]_vars

\* A "- " item was handled right after a "* " item: the list changed kind.
C1_Witness ==
    /\ pc = "loop"
    /\ in_ul
    /\ Len(infile) >= 2
    /\ Class(infile[Len(infile) - 1]) = "ol"

-----------------------------------------------------------------------------
\* C2 as stated: a '#' line that fails the heading check changes no block
\* state and writes nothing; an open paragraph or list is left as it was.
C2_NoEffect ==
    [][\A line \in Lines :
          (Handled(line) /\ FailedHeading(line)) =>
              UNCHANGED <<in_ul, in_ol, paragraph_lines, outfile>>]_vars

\* C2 as amended: a '#' line that fails the heading check writes nothing of
\* its own and opens nothing, and it closes an open paragraph or list exactly
\* as a blank line does, so that no context is open after it.
C2_ClosesLikeBlank ==
    [][\A line \in Lines :
          (Handled(line) /\ FailedHeading(line)) =>
              /\ Added = Concat(blank_branch(block).writes)
              /\ Count(Added, <<"#">>) = 0
              /\ ~in_ul' /\ ~in_ol' /\ paragraph_lines' = <<>>]_vars

\* A failed heading was handled while a list or a paragraph was open
\* (the line before it was an item or a paragraph line).
C2_Witness ==
    /\ pc = "loop"
    /\ Len(infile) >= 2
    /\ FailedHeading(infile[Len(infile)])
    /\ Class(infile[Len(infile) - 1]) \in {"ul", "ol", "para"}

-----------------------------------------------------------------------------
\* The list tags of a text.
C3_IsListTag(x) == x \in {<<"<ul>">>, <<"</ul>">>, <<"<ol>">>, <<"</ol>">>, <<"<li>">>}

C3_ListTag(c, closing) ==
    IF c = "ul" THEN (IF closing THEN <<"</ul>">> ELSE <<"<ul>">>)
    ELSE (IF closing THEN <<"</ol>">> ELSE <<"<ol>">>)

\* The list tags the runs of lines[i..] call for, prev being the class of
\* the line before.
RECURSIVE C3_RunTags(_, _, _, _)
C3_RunTags(lines, i, prev, ended) ==
    IF i > Len(lines)
    THEN IF ended /\ prev \in {"ul", "ol"} THEN <<C3_ListTag(prev, TRUE)>> ELSE <<>>
    ELSE LET c == Class(lines[i])
         IN (IF prev \in {"ul", "ol"} /\ c # prev THEN <<C3_ListTag(prev, TRUE)>> ELSE <<>>)
            \o (IF c \in {"ul", "ol"} /\ c # prev THEN <<C3_ListTag(c, FALSE)>> ELSE <<>>)
            \o (IF c \in {"ul", "ol"} THEN <<<<"<li>">>>> ELSE <<>>)
            \o C3_RunTags(lines, i + 1, c, ended)

\* C3: every maximal run of "- " lines is written as one <ul>, one <li> per
\* line, one </ul>, in this order, and likewise "* " runs with <ol>; when the
\* list changes kind the closing tag comes before the other opening tag.
C3_OneListPerRun ==
    Converting =>
        SelectSeq(outfile, C3_IsListTag) = C3_RunTags(infile, 1, "none", pc # "loop")

\* A run of two "- " lines followed by a "* " line was handled.
C3_Witness ==
    /\ pc = "loop"
    /\ Len(infile) = 3
    /\ Class(infile[1]) = "ul" /\ Class(infile[2]) = "ul" /\ Class(infile[3]) = "ol"

-----------------------------------------------------------------------------
\* The <p> blocks of a text: what lies between each <p> and its </p>.
RECURSIVE C4_PBlocksOf(_, _, _)
C4_PBlocksOf(out, i, inside) ==
    IF i > Len(out) THEN <<>>
    ELSE IF out[i] = <<"<p>">> THEN <<out[i]>> \o C4_PBlocksOf(out, i + 1, TRUE)
    ELSE IF out[i] = <<"</p>">>
         THEN SubSeq(out, i, IF i < Len(out) THEN i + 1 ELSE i)
              \o C4_PBlocksOf(out, i + 2, FALSE)
    ELSE (IF inside THEN <<out[i]>> ELSE <<>>) \o C4_PBlocksOf(out, i + 1, inside)

\* The <p> blocks the runs of lines[i..] call for, run being the paragraph
\* lines of the run that lines[i - 1] ends.
RECURSIVE C4_RunBlocks(_, _, _, _)
C4_RunBlocks(lines, i, run, ended) ==
    LET block_of_run ==
            IF run = <<>> THEN <<>>
            ELSE Tag("<p>") \o NL
                 \o join(Tag("<br/>") \o NL, [k \in 1..Len(run) |-> process_line(run[k])])
                 \o NL \o Tag("</p>") \o NL
    IN IF i > Len(lines) THEN (IF ended THEN block_of_run ELSE <<>>)
       ELSE IF Class(lines[i]) = "para"
            THEN C4_RunBlocks(lines, i + 1, Append(run, lines[i]), ended)
       ELSE block_of_run \o C4_RunBlocks(lines, i + 1, <<>>, ended)

\* The runs of paragraph lines that are closed, as the lengths of the runs.
RECURSIVE C4_ClosedRuns(_, _, _, _)
C4_ClosedRuns(lines, i, n, ended) ==
    IF i > Len(lines) THEN (IF ended /\ n > 0 THEN <<n>> ELSE <<>>)
    ELSE IF Class(lines[i]) = "para" THEN C4_ClosedRuns(lines, i + 1, n + 1, ended)
    ELSE (IF n > 0 THEN <<n>> ELSE <<>>) \o C4_ClosedRuns(lines, i + 1, 0, ended)

RECURSIVE C4_Breaks(_)
C4_Breaks(runs) == IF runs = <<>> THEN 0 ELSE (Head(runs) - 1) + C4_Breaks(Tail(runs))

\* C4: every maximal run of N paragraph lines (non-blank, no '#', "- " or
\* "* " line) is written, once it is closed, as one <p> block that holds the
\* N transformed lines in input order with a <br/> between adjacent lines:
\* none for N = 1, N - 1 otherwise.
C4_OneParagraphPerRun ==
    Converting =>
        LET runs == C4_ClosedRuns(infile, 1, 0, pc # "loop")
        IN /\ C4_PBlocksOf(outfile, 1, FALSE) = C4_RunBlocks(infile, 1, <<>>, pc # "loop")
           /\ Count(outfile, <<"<p>">>) = Len(runs)
           /\ Count(outfile, <<"</p>">>) = Len(runs)
           /\ Count(outfile, <<"<br/>">>) = C4_Breaks(runs)

\* A run of three paragraph lines was written, with its two break tags.
C4_Witness ==
    /\ Flushed
    /\ Len(infile) = 3
    /\ \A i \in 1..3 : Class(infile[i]) = "para"
    /\ Count(outfile, <<"<br/>">>) = 2

-----------------------------------------------------------------------------
\* What closing the open paragraph or list writes.
C5_Closings ==
    (IF paragraph_lines = <<>> THEN <<>>
     ELSE Tag("<p>") \o NL
          \o join(Tag("<br/>") \o NL,
                  [k \in 1..Len(paragraph_lines) |-> process_line(paragraph_lines[k])])
          \o NL \o Tag("</p>") \o NL)
    \o (IF in_ul THEN Tag("</ul>") \o NL ELSE <<>>)
    \o (IF in_ol THEN Tag("</ol>") \o NL ELSE <<>>)

\* C5: a line whose trimmed form is L '#' (1 <= L <= 6), a space and a text T
\* first closes the open paragraph or list, then writes exactly
\* <hL> transform(T) </hL> newline, and leaves no context open.
C5_HeadingWritten ==
    [][\A line \in Lines : \A L \in 1..6 :
          (Handled(line) /\ IsHeading(line, L)) =>
              /\ Added = C5_Closings
                         \o <<<<"<h", Digit(L), ">">>>>
                         \o process_line(SubSeq(strip(line), L + 2, Len(strip(line))))
                         \o <<<<"</h", Digit(L), ">">>>> \o NL
              /\ ~in_ul' /\ ~in_ol' /\ paragraph_lines' = <<>>]_vars

\* A valid heading was handled while a paragraph was buffered.
C5_Witness ==
    /\ pc = "loop"
    /\ Len(infile) >= 2
    /\ ValidHeading(infile[Len(infile)])
    /\ Class(infile[Len(infile) - 1]) = "para"
    /\ Count(outfile, <<"</p>">>) = 1

-----------------------------------------------------------------------------
\* The block tag left open at the end of out[i..], `open` being the one open
\* before out[i]: "none", a tag, or "bad" when a tag is opened inside another
\* or closed without being the open one.
RECURSIVE C6_Unclosed(_, _, _)
C6_Unclosed(out, i, open) ==
    IF i > Len(out) \/ open = "bad" THEN open
    ELSE IF out[i] \in {<<"<ul>">>, <<"<ol>">>, <<"<p>">>}
         THEN C6_Unclosed(out, i + 1, IF open = "none" THEN out[i][1] ELSE "bad")
    ELSE IF out[i] \in {<<"</ul>">>, <<"</ol>">>, <<"</p>">>}
         THEN C6_Unclosed(out, i + 1,
                          IF \/ open = "<ul>" /\ out[i] = <<"</ul>">>
                             \/ open = "<ol>" /\ out[i] = <<"</ol>">>
                             \/ open = "<p>" /\ out[i] = <<"</p>">>
                          THEN "none" ELSE "bad")
    ELSE C6_Unclosed(out, i + 1, open)

C6_Terminal ==
    Flushed =>
        /\ ~in_ul /\ ~in_ol /\ paragraph_lines = <<>>
        /\ C6_Unclosed(outfile, 1, "none") = "none"
        /\ Count(outfile, <<"<ul>">>) = Count(outfile, <<"</ul>">>)
        /\ Count(outfile, <<"<ol>">>) = Count(outfile, <<"</ol>">>)
        /\ Count(outfile, <<"<p>">>) = Count(outfile, <<"</p>">>)

\* C6: a pass that entered the loop comes to its end, and when it ends at the
\* end of the stream no context is open, the paragraph buffer is empty and
\* every <ul>, <ol> and <p> of the output has its closing tag.
C6_PassEndsClosed ==
    /\ (pc = "loop") ~> (pc = "exited")
    /\ []C6_Terminal

\* The stream ended on a list item, and the pass exited with the list closed.
C6_Witness ==
    /\ pc = "exited"
    /\ exit_code = 0
    /\ LastClass \in {"ul", "ol"}
    /\ Count(outfile, <<"</ul>">>) + Count(outfile, <<"</ol>">>) >= 1

-----------------------------------------------------------------------------
\* The four substitutions one after the other, each on the result of the one
\* before: bold, emphasis, hash-substitution, character-stripping.
C7_FourSteps(text) == sub_remove_c(sub_md5(sub_emphasis(sub_bold(text))))

C7_Transformed(run) == Concat([k \in 1..Len(run) |-> C7_FourSteps(run[k])])

\* What is content in the output: not a block tag, not a newline.
C7_IsContent(x) ==
    /\ x \notin {<<"<p>">>, <<"</p>">>, <<"<br/>">>, <<"<ul>">>, <<"</ul>">>, <<"<ol>">>,
                 <<"</ol>">>, <<"<li>">>, <<"</li>">>, <<"\n">>}
    /\ x[1] \notin {"<h", "</h"}

\* The content lines[i..] puts in the output, run being the paragraph lines
\* buffered before lines[i].
RECURSIVE C7_Emitted(_, _, _, _)
C7_Emitted(lines, i, run, ended) ==
    IF i > Len(lines) THEN (IF ended THEN C7_Transformed(run) ELSE <<>>)
    ELSE IF Class(lines[i]) = "para"
         THEN C7_Emitted(lines, i + 1, Append(run, lines[i]), ended)
    ELSE C7_Transformed(run)
         \o (IF ValidHeading(lines[i]) THEN C7_FourSteps(HeadingText(lines[i]))
             ELSE IF Class(lines[i]) \in {"ul", "ol"} THEN C7_FourSteps(ItemText(lines[i]))
             ELSE <<>>)
         \o C7_Emitted(lines, i + 1, <<>>, ended)

\* The paragraph lines at the end of lines[1..n].
RECURSIVE C7_Pending(_, _)
C7_Pending(lines, n) ==
    IF n = 0 \/ Class(lines[n]) # "para" THEN <<>>
    ELSE Append(C7_Pending(lines, n - 1), lines[n])

\* C7: the content written for a heading, a list item and every line of a
\* paragraph is the text with bold, emphasis, hash-substitution and
\* character-stripping applied in this order, each to the result of the step
\* before; a paragraph line is buffered as read and transformed when written.
C7_FixedOrder ==
    Converting =>
        /\ SelectSeq(outfile, C7_IsContent) = C7_Emitted(infile, 1, <<>>, pc # "loop")
        /\ pc = "loop" => paragraph_lines = C7_Pending(infile, Len(infile))

\* The line [[**a**]] was written: the digest is that of the bold step's result.
C7_Witness ==
    /\ Converting
    /\ \E k \in 1..Len(outfile) :
          outfile[k] = <<"md5", "<", "b", ">", "a", "<", "/", "b", ">">>

-----------------------------------------------------------------------------
Occurs(text, pattern) ==
    \E i \in 1..(Len(text) - Len(pattern) + 1) :
        SubSeq(text, i, i + Len(pattern) - 1) = pattern

-----------------------------------------------------------------------------
\* C9: with fewer than two arguments, or an input path that is no file, the
\* program prints its message and exits with code 1 before the conversion:
\* no handle is opened and the output file is not opened, truncated or written.
C9_NoConversionOnBadCall ==
    (argc < 3 \/ ~input_is_file) =>
        /\ pc \in {"check_args", "check_file", "exited"}
        /\ ~out_touched /\ ~out_open /\ ~in_open
        /\ outfile = <<>> /\ infile = <<>>
        /\ pc = "exited" =>
              /\ exit_code = 1
              /\ stderr = <<IF argc < 3
                            THEN "Usage: ./markdown2html.py README.md README.html"
                            ELSE "Missing <input_file>">>

\* Two arguments, the first no file: the program has exited.
C9_Witness == pc = "exited" /\ argc >= 3 /\ ~input_is_file /\ exit_code = 1

-----------------------------------------------------------------------------
\* C10: both handles are closed when the process reports its result, on
\* every path out of the conversion; a fault in it gives the Error message
\* and exit code 1, a conversion without fault exit code 0 and no message.
C10_ReleasedThenReported ==
    /\ pc \in {"except", "exit_ok", "exited"} => ~in_open /\ ~out_open
    /\ pc = "exited" /\ exc = "raised" =>
          exit_code = 1 /\ stderr = <<"Error: <e>">>
    /\ pc = "exited" /\ exc = "none" /\ argc >= 3 /\ input_is_file =>
          exit_code = 0 /\ stderr = <<>>
    /\ pc = "exit_ok" => exc = "none"
    /\ pc = "except" => exc = "raised"

\* A write failed after part of the output was written, and the process
\* has reported it.
C10_Witness ==
    /\ pc = "exited"
    /\ exc = "raised"
    /\ out_touched
    /\ outfile # <<>>

-----------------------------------------------------------------------------
\* The <p> block that closing a buffer of these lines writes.
C11_BlockOf(lines) ==
    Tag("<p>") \o NL
    \o join(Tag("<br/>") \o NL, [k \in 1..Len(lines) |-> process_line(lines[k])])
    \o NL \o Tag("</p>") \o NL

\* The paragraph lines at the end of the input read so far.
C11_TrailingRun(lines) ==
    LET others == {i \in 1..Len(lines) : Class(lines[i]) # "para"}
    IN SubSeq(lines, Max(others \cup {0}) + 1, Len(lines))

\* A paragraph line is buffered and nothing of the paragraph is written.
C11_LineBuffered ==
    \A line \in Lines :
        (Handled(line) /\ Class(line) = "para") =>
            /\ paragraph_lines' = Append(paragraph_lines, line)
            /\ Count(Added, <<"<p>">>) = 0
            /\ Added = (IF in_ul THEN Tag("</ul>") \o NL ELSE <<>>)
                       \o (IF in_ol THEN Tag("</ol>") \o NL ELSE <<>>)

\* A step without fault that is a close event: the end of the stream, or a
\* line that is no paragraph line.
C11_CloseEvent ==
    \/ pc = "loop" /\ pc' = "exit_ok"
    \/ \E line \in Lines : Handled(line) /\ Class(line) # "para"

\* A close event writes the buffer, as one block, first and once, and
\* empties it; no other step writes a <p> block.
C11_WrittenAtClose ==
    /\ (C11_CloseEvent /\ paragraph_lines # <<>>) =>
          /\ Len(Added) >= Len(C11_BlockOf(paragraph_lines))
          /\ SubSeq(Added, 1, Len(C11_BlockOf(paragraph_lines)))
                = C11_BlockOf(paragraph_lines)
          /\ Count(Added, <<"<p>">>) = 1
    /\ C11_CloseEvent => paragraph_lines' = <<>>
    /\ (exc' = "none" /\ Count(Added, <<"<p>">>) > 0) =>
          C11_CloseEvent /\ paragraph_lines # <<>>

\* C11: handling a paragraph line writes nothing of the paragraph and appends
\* the line to the buffer; the buffer is written only by a close event (a
\* blank line, a '#' line, a list item or the end of the stream), once and
\* whole, and is empty afterwards; while no fault occurs the buffer holds
\* exactly the paragraph lines read since the last close event, so that no
\* buffered line is written twice or lost.
C11_BufferedUntilClose ==
    /\ [](Converting =>
             paragraph_lines = (IF pc = "loop" THEN C11_TrailingRun(infile) ELSE <<>>))
    /\ [][C11_LineBuffered /\ C11_WrittenAtClose]_vars

\* Two paragraph lines were buffered and a list item closed the paragraph.
C11_Witness ==
    /\ pc = "loop"
    /\ exc = "none"
    /\ Len(infile) = 3
    /\ Class(infile[1]) = "para"
    /\ Class(infile[2]) = "para"
    /\ Class(infile[3]) = "ul"
    /\ paragraph_lines = <<>>
    /\ Count(outfile, <<"<br/>">>) = 1

-----------------------------------------------------------------------------
\* The valid heading lines and the list lines read so far.
C12_ValidHeadings == Cardinality({i \in 1..Len(infile) : ValidHeading(infile[i])})

C12_ListLines == Cardinality({i \in 1..Len(infile) : Class(infile[i]) \in {"ul", "ol"}})

C12_IsHeadingTag(x) == x[1] \in {"<h", "</h"}

\* C12: every heading tag in the output has a level in 1..6, and a '#' line
\* that fails the heading check (seven or more '#', or no space after them)
\* gives nothing of its own: it is never in the paragraph buffer, the output
\* holds one heading per valid heading line and one item per list line read,
\* and no '#' character.
C12_FailedHeadingDropped ==
    /\ \A i \in 1..Len(outfile) :
          C12_IsHeadingTag(outfile[i]) =>
              Len(outfile[i]) = 3 /\ outfile[i][2] \in {Digit(L) : L \in 1..6}
    /\ \A k \in 1..Len(paragraph_lines) : Class(paragraph_lines[k]) # "hash"
    /\ Converting =>
          /\ Cardinality({i \in 1..Len(outfile) : outfile[i][1] = "<h"}) = C12_ValidHeadings
          /\ Cardinality({i \in 1..Len(outfile) : outfile[i][1] = "</h"}) = C12_ValidHeadings
          /\ Count(outfile, <<"<li>">>) = C12_ListLines
          /\ Count(outfile, <<"#">>) = 0

\* A line of seven '#' was handled between a paragraph line and a heading.
C12_Witness ==
    /\ pc = "loop"
    /\ exc = "none"
    /\ Len(infile) = 3
    /\ Class(infile[1]) = "para"
    /\ FailedHeading(infile[2])
    /\ count_hashes(strip(infile[2])) = 7
    /\ ValidHeading(infile[3])
    /\ C12_ValidHeadings = 1

-----------------------------------------------------------------------------
\* The locals after a blank line is handled in state s, and what it writes.
C13_AfterBlank(s) == blank_branch([s EXCEPT !.writes = <<>>])

\* The closing helpers called a second time write nothing and change nothing.
C13_Idempotent ==
    /\ close_paragraph(close_paragraph(block)) = close_paragraph(block)
    /\ close_ul(close_ul(block)) = close_ul(block)
    /\ close_ol(close_ol(block)) = close_ol(block)
    /\ C13_AfterBlank(C13_AfterBlank(block)) = [C13_AfterBlank(block) EXCEPT !.writes = <<>>]

\* A blank line writes the closing of what is open and leaves nothing open;
\* with nothing open it writes nothing and changes no local.
C13_BlankCloses ==
    \A line \in Lines :
        (Handled(line) /\ Class(line) = "blank") =>
            /\ Added = C5_Closings
            /\ ~in_ul' /\ ~in_ol' /\ paragraph_lines' = <<>>
            /\ (~in_ul /\ ~in_ol /\ paragraph_lines = <<>>) =>
                  UNCHANGED <<outfile, locals>>

\* A blank line after a blank line: nothing is written, no local changes.
C13_SecondBlank ==
    \A line \in Lines :
        (Handled(line) /\ Class(line) = "blank" /\ LastClass = "blank") =>
            UNCHANGED <<outfile, locals>>

\* C13: a blank line closes whatever context is open and leaves none open;
\* the closing helpers are idempotent, a blank line handled with no context
\* open writes nothing and changes no local, so that a run of blank lines
\* gives the output and the state that its first line gives.
C13_BlankRunAsOne ==
    /\ [](pc = "loop" => C13_Idempotent)
    /\ [][C13_BlankCloses /\ C13_SecondBlank]_vars

\* An item and two blank lines were handled: the list was closed once.
C13_Witness ==
    /\ pc = "loop"
    /\ exc = "none"
    /\ Len(infile) = 3
    /\ Class(infile[1]) = "ol"
    /\ Class(infile[2]) = "blank"
    /\ Class(infile[3]) = "blank"
    /\ Count(outfile, <<"</ol>">>) = 1

-----------------------------------------------------------------------------
C14_EndsWith(seq, suffix) ==
    /\ Len(seq) >= Len(suffix)
    /\ SubSeq(seq, Len(seq) - Len(suffix) + 1, Len(seq)) = suffix

C14_Item(t) ==
    Tag("<li>") \o process_line(SubSeq(t, 3, Len(t))) \o Tag("</li>") \o NL

C14_Heading(t, L) ==
    <<<<"<h", Digit(L), ">">>>> \o process_line(SubSeq(t, L + 2, Len(t)))
    \o <<<<"</h", Digit(L), ">">>>> \o NL

\* What handling `line` does, by the class of its trimmed form t.
C14_HandledAs(line) ==
    LET t == strip(line)
        headings == Cardinality({i \in 1..Len(Added) : Added[i][1] = "<h"})
        items == Count(Added, <<"<li>">>)
    IN /\ Class(line) = "blank" =>
             /\ headings = 0 /\ items = 0
             /\ ~in_ul' /\ ~in_ol' /\ paragraph_lines' = <<>>
       /\ Class(line) = "hash" =>
             /\ items = 0
             /\ ~in_ul' /\ ~in_ol' /\ paragraph_lines' = <<>>
             /\ headings = (IF ValidHeading(line) THEN 1 ELSE 0)
             /\ \A L \in 1..6 : IsHeading(line, L) => C14_EndsWith(Added, C14_Heading(t, L))
       /\ Class(line) = "ul" =>
             /\ headings = 0 /\ items = 1
             /\ in_ul' /\ ~in_ol' /\ paragraph_lines' = <<>>
             /\ C14_EndsWith(Added, C14_Item(t))
       /\ Class(line) = "ol" =>
             /\ headings = 0 /\ items = 1
             /\ ~in_ul' /\ in_ol' /\ paragraph_lines' = <<>>
             /\ C14_EndsWith(Added, C14_Item(t))
       /\ Class(line) = "para" =>
             /\ headings = 0 /\ items = 0
             /\ ~in_ul' /\ ~in_ol'
             /\ paragraph_lines' = Append(paragraph_lines, line)

\* C14: a line is handled by the class of its trimmed form, tried in the
\* order blank, '#', "- ", "* ", paragraph; a paragraph line is appended to
\* the buffer as it was read, whitespace included, while the content of a
\* heading or of a list item is cut from the trimmed line.
C14_ClassifiedTrimmed == [][\A line \in Lines : Handled(line) => C14_HandledAs(line)]_vars

\* A paragraph line, a heading and an item, each with whitespace around it,
\* were handled: the paragraph was written with its spaces, the others
\* without.
C14_Witness ==
    /\ pc = "loop"
    /\ exc = "none"
    /\ infile = << Str(<<" ", "a", " ">>),
                   Str(<<"\t", "#", "#", " ", "a", " ">>),
                   Str(<<" ", "-", " ", "(", "(", "C", "a", "c", ")", ")">>) >>
    /\ in_ul
    /\ SubSeq(outfile, 1, 7) = Tag("<p>") \o NL \o Str(<<" ", "a", " ">>) \o NL \o Tag("</p>")
    /\ SubSeq(outfile, 8, 11) = NL \o <<<<"<h", "2", ">">>>> \o Str(<<"a">>) \o <<<<"</h", "2", ">">>>>

-----------------------------------------------------------------------------
\* What a piece that is plain or one pair has become after n re.sub calls.
C15_PieceAfter(piece, n) ==
    IF piece = BoldPair /\ n >= 1 THEN Str(<<"<", "b", ">", "a", "<", "/", "b", ">">>)
    ELSE IF piece = EmphasisPair /\ n >= 2
         THEN Str(<<"<", "e", "m", ">", "a", "<", "/", "e", "m", ">">>)
    ELSE IF piece = Md5Pair /\ n >= 3 THEN <<<<"md5", "a">>>>
    ELSE IF piece = RemoveCPair /\ n >= 4 THEN Str(<<"a">>)
    ELSE piece

\* A line of plain pieces and pairs: every pair is replaced on its own.
C15_EveryPairReplaced ==
    (\A k \in 1..Len(subject) : subject[k] \notin LoneDelimiters) =>
        line_text = Concat([k \in 1..Len(subject) |-> C15_PieceAfter(subject[k], step)])

C15_At(seq, i, p) == i + Len(p) - 1 <= Len(seq) /\ SubSeq(seq, i, i + Len(p) - 1) = p

\* The contents of the spans of seq between an opening tag and the nearest
\* closing tag after it.
C15_Spans(seq, open, close) ==
    {SubSeq(seq, i + Len(open), j - 1) :
        <<i, j>> \in {<<i, j>> \in (1..Len(seq)) \X (1..Len(seq)) :
                         /\ C15_At(seq, i, open)
                         /\ j >= i + Len(open)
                         /\ C15_At(seq, j, close)
                         /\ \A m \in (i + Len(open))..(j - 1) : ~C15_At(seq, m, close)}}

\* The closing delimiter d d does not stand in the content after its first
\* character: the match could not have ended earlier.
C15_Shortest(content, d) ==
    \A k \in 2..(Len(content) - 1) : ~(content[k] = <<d>> /\ content[k + 1] = <<d>>)

\* On any line, every span written ends at the first closing delimiter that
\* could end it.
C15_SpansShortest ==
    /\ \A content \in C15_Spans(line_text, Str(<<"<", "b", ">">>), Str(<<"<", "/", "b", ">">>)) :
          C15_Shortest(content, "*")
    /\ \A content \in C15_Spans(line_text, Str(<<"<", "e", "m", ">">>),
                                Str(<<"<", "/", "e", "m", ">">>)) :
          C15_Shortest(content, "_")
    /\ \A i \in 1..Len(line_text) :
          line_text[i][1] \in {"md5", "md5-c"} =>
              \A k \in 3..(Len(line_text[i]) - 1) :
                  ~(line_text[i][k] = "]" /\ line_text[i][k + 1] = "]")

\* C15: each re.sub call replaces every match of its pattern, found from the
\* left and ended at the nearest closing delimiter: a line with several
\* pairs has one span per pair, and no span holds a closing delimiter that
\* could have ended it earlier; the four calls together are process_line.
C15_LeftmostShortest ==
    /\ C15_EveryPairReplaced
    /\ C15_SpansShortest
    /\ step = 4 => line_text = process_line(Concat(subject))

\* The line "**a**c**a**" after the four calls: two bold spans.
C15_Witness ==
    /\ step = 4
    /\ subject = <<BoldPair, Str(<<"c">>), BoldPair>>
    /\ line_text = Str(<<"<", "b", ">", "a", "<", "/", "b", ">", "c",
                         "<", "b", ">", "a", "<", "/", "b", ">">>)

-----------------------------------------------------------------------------
\* C16: after every handled line the one block tag left unclosed in the
\* output is that of the open list (<ul> iff in_ul, <ol> iff in_ol, never
\* both, none when no list is open); in every state, also after a failed
\* write, every <p> written has its </p> written with it, and no block tag
\* stands inside another block.
C16_UnclosedIsOpenList ==
    LET unclosed == C6_Unclosed(outfile, 1, "none")
    IN /\ ~(in_ul /\ in_ol)
       /\ unclosed \in {"none", "<ul>", "<ol>"}
       /\ Count(outfile, <<"<p>">>) = Count(outfile, <<"</p>">>)
       /\ (pc = "loop" /\ exc = "none") =>
             unclosed = (IF in_ul THEN "<ul>" ELSE IF in_ol THEN "<ol>" ELSE "none")

\* A paragraph, a "- " item and a "* " item were handled: the paragraph and
\* the unordered list are closed, the ordered list is open.
C16_Witness ==
    /\ pc = "loop"
    /\ exc = "none"
    /\ Len(infile) = 3
    /\ Class(infile[1]) = "para"
    /\ Class(infile[2]) = "ul"
    /\ Class(infile[3]) = "ol"
    /\ in_ol
    /\ C6_Unclosed(outfile, 1, "none") = "<ol>"
    /\ Count(outfile, <<"</p>">>) = 1
    /\ Count(outfile, <<"</ul>">>) = 1

-----------------------------------------------------------------------------
\* The list lines read so far, in input order.
C17_ListLines == SelectSeq(infile, LAMBDA l : Class(l) \in {"ul", "ol"})

\* In the output, the n-th <li> stands in an open list of the kind of the
\* n-th list line, with no paragraph open.
C17_ItemsInsideTheirList ==
    Converting =>
        \A k \in 1..Len(outfile) :
            outfile[k] = <<"<li>">> =>
                LET n == Count(SubSeq(outfile, 1, k), <<"<li>">>)
                IN /\ n <= Len(C17_ListLines)
                   /\ C6_Unclosed(SubSeq(outfile, 1, k - 1), 1, "none")
                         = (IF Class(C17_ListLines[n]) = "ul" THEN "<ul>" ELSE "<ol>")

\* The step that writes an item writes it last, after the closing of the
\* other contexts and the opening of its list, and ends with the list of
\* its kind open, the other list closed and the buffer empty.
C17_ItemWrittenInContext ==
    \A line \in Lines :
        (Handled(line) /\ Class(line) \in {"ul", "ol"}) =>
            /\ Count(Added, <<"<li>">>) = 1
            /\ \A tag \in {<<"<p>">>, <<"</p>">>, <<"<ul>">>, <<"</ul>">>, <<"<ol>">>, <<"</ol>">>} :
                  \A i \in 1..Len(Added) : Added[i] = tag => i < First(Added, <<"<li>">>)
            /\ in_ul' = (Class(line) = "ul")
            /\ in_ol' = (Class(line) = "ol")
            /\ paragraph_lines' = <<>>

\* C17: every <li> is written while the list of its kind is open and nothing
\* else is: a "- " item with in_ul true, in_ol false and the paragraph buffer
\* empty, a "* " item with in_ol true, in_ul false and the buffer empty.
C17_ItemOnlyInOwnList ==
    /\ []C17_ItemsInsideTheirList
    /\ [][C17_ItemWrittenInContext]_vars

\* A "* " item was handled right after a paragraph line: the paragraph was
\* written before the item.
C17_Witness ==
    /\ pc = "loop"
    /\ exc = "none"
    /\ Len(infile) >= 2
    /\ LastClass = "ol"
    /\ Class(infile[Len(infile) - 1]) = "para"
    /\ in_ol
    /\ First(outfile, <<"</p>">>) < First(outfile, <<"<li>">>)

-----------------------------------------------------------------------------
\* What of the output shows which line it came from: a mark for every
\* paragraph line (<p> and each <br/>), item and heading, in output order.
C18_OutMarks ==
    Concat([k \in 1..Len(outfile) |->
               IF outfile[k] \in {<<"<p>">>, <<"<br/>">>} THEN <<<<"p">>>>
               ELSE IF outfile[k] = <<"<li>">> THEN <<<<"li">>>>
               ELSE IF outfile[k][1] = "<h" THEN <<<<"h", outfile[k][2]>>>>
               ELSE <<>>])

\* The marks of the lines read so far, in input order; the lines still in
\* the buffer and the lines that write nothing have none.
C18_InMarks ==
    LET buffered == IF pc = "loop" THEN Len(C11_TrailingRun(infile)) ELSE 0
    IN Concat([k \in 1..Len(infile) |->
                  IF Class(infile[k]) = "para"
                  THEN (IF k > Len(infile) - buffered THEN <<>> ELSE <<<<"p">>>>)
                  ELSE IF Class(infile[k]) \in {"ul", "ol"} THEN <<<<"li">>>>
                  ELSE IF ValidHeading(infile[k])
                       THEN <<<<"h", Digit(count_hashes(strip(infile[k])))>>>>
                  ELSE <<>>])

\* What a line of this class closes of the contexts open before it.
C18_ClosedBy(class) ==
    (IF paragraph_lines # <<>> /\ class # "para" THEN C11_BlockOf(paragraph_lines) ELSE <<>>)
    \o (IF in_ul /\ class # "ul" THEN Tag("</ul>") \o NL ELSE <<>>)
    \o (IF in_ol /\ class # "ol" THEN Tag("</ol>") \o NL ELSE <<>>)

\* A line writes the closing of the open block first, then its own output,
\* which closes nothing.
C18_ClosedBlockFirst ==
    \A line \in Lines :
        Handled(line) =>
            LET closing == C18_ClosedBy(Class(line))
                own == SubSeq(Added, Len(closing) + 1, Len(Added))
            IN /\ Len(Added) >= Len(closing)
               /\ SubSeq(Added, 1, Len(closing)) = closing
               /\ \A i \in 1..Len(own) :
                     own[i] \notin {<<"<p>">>, <<"</p>">>, <<"<br/>">>, <<"</ul>">>, <<"</ol>">>}

\* C18: the output follows the input: the paragraphs, items and headings of
\* the output stand in the order of their lines, and a line that closes an
\* open paragraph or list writes the closed block (the whole <p> block, </ul>
\* or </ol>) before anything of its own.
C18_OutputInInputOrder ==
    /\ [](Converting => C18_OutMarks = C18_InMarks)
    /\ [][C18_ClosedBlockFirst]_vars

\* A paragraph line, an item and a heading were handled: the <p> block, the
\* list and the heading stand in the output in that order.
C18_Witness ==
    /\ pc = "loop"
    /\ exc = "none"
    /\ Len(infile) = 3
    /\ Class(infile[1]) = "para"
    /\ Class(infile[2]) = "ul"
    /\ ValidHeading(infile[3])
    /\ Len(C18_OutMarks) = 3
    /\ C18_OutMarks[1] = <<"p">>
    /\ C18_OutMarks[2] = <<"li">>
    /\ First(outfile, <<"</ul>">>) > First(outfile, <<"<li>">>)
    /\ outfile[Len(outfile) - 1][1] = "</h"

-----------------------------------------------------------------------------
\* The positions of the output where a <p> block without content stands:
\* <p>, newline, newline, </p>.
C19_EmptyBlocks ==
    {k \in 1..(Len(outfile) - 3) :
        SubSeq(outfile, k, k + 3) = Tag("<p>") \o NL \o NL \o Tag("</p>")}

\* The buffer holds paragraph lines only, and the output one <p> block for
\* every closed run of them, with one line of the block for every line of
\* the run.
C19_BlocksOfBufferedLines ==
    /\ \A k \in 1..Len(paragraph_lines) : Class(paragraph_lines[k]) = "para"
    /\ Converting =>
          LET runs == C4_ClosedRuns(infile, 1, 0, pc # "loop")
          IN /\ \A r \in 1..Len(runs) : runs[r] >= 1
             /\ Count(outfile, <<"<p>">>) = Len(runs)
             /\ Count(outfile, <<"<p>">>) + Count(outfile, <<"<br/>">>)
                   = Cardinality({i \in 1..Len(infile) : Class(infile[i]) = "para"})
                     - Len(paragraph_lines)

\* C19 as stated: the buffer only holds lines that are not blank after
\* trimming and do not start with '#', "- " or "* "; a <p> block is written
\* only for a buffer of at least one line, and no empty <p> block is ever
\* in the output.
C19_NoEmptyBlock ==
    /\ C19_BlocksOfBufferedLines
    /\ C19_EmptyBlocks = {}

\* C19 as amended: the buffer only holds lines that are not blank after
\* trimming and do not start with '#', "- " or "* "; a <p> block is written
\* only for a buffer of at least one line and holds one transformed line for
\* each; its content is empty only when the transform of its one line is
\* empty, as it is for "((c))".
C19_BlockPerBufferedLine ==
    /\ C19_BlocksOfBufferedLines
    /\ (Converting /\ C19_EmptyBlocks # {}) =>
          \E i \in 1..Len(infile) :
              Class(infile[i]) = "para" /\ process_line(infile[i]) = <<>>

\* The line "((c))" was buffered and a blank line closed the paragraph: the
\* block written for it has no content.
C19_Witness ==
    /\ pc = "loop"
    /\ exc = "none"
    /\ Len(infile) = 2
    /\ infile[1] = Str(<<"(", "(", "c", ")", ")">>)
    /\ Class(infile[2]) = "blank"
    /\ paragraph_lines = <<>>
    /\ outfile = Tag("<p>") \o NL \o NL \o Tag("</p>") \o NL

====
